---------------------------- MODULE Spec2Model ----------------------------
(***************************************************************************)
(* A model of src/app.py: the job table `jobs`, the background worker      *)
(* process_job (one thread per job), and the request handlers              *)
(* start_process, get_progress, pause_job and resume_job, each running in  *)
(* its own request thread.  The worker's writes and get_progress's reads   *)
(* of a job field are one step each, because they take no lock and         *)
(* interleave freely; a with block that waits for nothing is one step.     *)
(*                                                                         *)
(* Strings are sequences of one-character strings, so that strip(),        *)
(* lower(), splitlines() and int() are computed and not assumed.           *)
(***************************************************************************)
EXTENDS Integers, Sequences, FiniteSets, TLC

(***************************************************************************)
(* Bounds of the model.                                                    *)
(***************************************************************************)
\* the longest candidate text, in lines
MaxLen == 2
\* the number of pause / resume requests served at one time
MaxCalls == 2
\* the wall clock runs from 0 to MaxClock (seconds)
MaxClock == 1
\* the most full 5-character chunks of a digest given to extract_roll_from_hmac
MaxChunks == 2
\* the most entries of an archive given to read_wordlist_from_file
MaxEntries == 3

\* Python's None, and a value that is not None
None == <<>>
Some(v) == <<v>>

(***************************************************************************)
(* String helpers (Python's str methods).                                  *)
(***************************************************************************)
IsSpace(c) == c \in {" ", "\t"}

RECURSIVE LStrip(_)
LStrip(s) == IF s # <<>> /\ IsSpace(Head(s)) THEN LStrip(Tail(s)) ELSE s

RECURSIVE RStrip(_)
RStrip(s) ==
    IF s # <<>> /\ IsSpace(s[Len(s)]) THEN RStrip(SubSeq(s, 1, Len(s) - 1)) ELSE s

\* str.strip()
Strip(s) == RStrip(LStrip(s))

LowerChar(c) ==
    CASE c = "A" -> "a" [] c = "B" -> "b" [] c = "C" -> "c"
      [] c = "D" -> "d" [] c = "E" -> "e" [] c = "F" -> "f"
      [] OTHER -> c

\* str.lower()
Lower(s) == [i \in 1..Len(s) |-> LowerChar(s[i])]

\* str.splitlines(): a final line break opens no further line
RECURSIVE SplitFrom(_, _, _)
SplitFrom(s, cur, started) ==
    IF s = <<>> THEN (IF started THEN <<cur>> ELSE <<>>)
    ELSE IF Head(s) = "\n" THEN <<cur>> \o SplitFrom(Tail(s), <<>>, FALSE)
    ELSE SplitFrom(Tail(s), Append(cur, Head(s)), TRUE)

SplitLines(text) == SplitFrom(text, <<>>, FALSE)

\* [ln.strip() for ln in lines if ln.strip()]
RECURSIVE StripNonEmpty(_)
StripNonEmpty(lines) ==
    IF lines = <<>> THEN <<>>
    ELSE IF Strip(Head(lines)) # <<>>
         THEN <<Strip(Head(lines))>> \o StripNonEmpty(Tail(lines))
         ELSE StripNonEmpty(Tail(lines))

Digits == {"0", "1", "2", "3", "4", "5", "6", "7", "8", "9"}

HexVal(c) ==
    CASE c = "0" -> 0 [] c = "1" -> 1 [] c = "2" -> 2 [] c = "3" -> 3
      [] c = "4" -> 4 [] c = "5" -> 5 [] c = "6" -> 6 [] c = "7" -> 7
      [] c = "8" -> 8 [] c = "9" -> 9
      [] c \in {"a", "A"} -> 10 [] c \in {"b", "B"} -> 11
      [] c \in {"c", "C"} -> 12 [] c \in {"d", "D"} -> 13
      [] c \in {"e", "E"} -> 14 [] c \in {"f", "F"} -> 15

\* int(s, 16)
RECURSIVE HexInt(_)
HexInt(s) == IF s = <<>> THEN 0 ELSE 16 * HexInt(SubSeq(s, 1, Len(s) - 1)) + HexVal(s[Len(s)])

\* int(s) succeeds (decimal digits, the request field is already stripped)
IsInt(s) == s # <<>> /\ \A i \in 1..Len(s) : s[i] \in Digits

RECURSIVE DecInt(_)
DecInt(s) == IF s = <<>> THEN 0 ELSE 10 * DecInt(SubSeq(s, 1, Len(s) - 1)) + HexVal(s[Len(s)])

(***************************************************************************)
(* read_wordlist_from_file, the .zip branch (lines 59-79).  An archive is  *)
(* the sequence of its entries in the order of namelist(); an entry has a  *)
(* name, its text, and whether z.open(name) and f.read() succeed.  The     *)
(* characters of the model are ASCII, which utf-8 and latin-1 decode to    *)
(* themselves.                                                             *)
(***************************************************************************)
\* name.endswith(c)
EndsWith(name, c) == name # <<>> /\ name[Len(name)] = c

\* the loop of lines 63-78 without the test of line 65
RECURSIVE ZipLoopWithDirs(_, _)
ZipLoopWithDirs(entries, lines) ==
    IF entries = <<>> THEN lines
    ELSE IF ~Head(entries).readable THEN ZipLoopWithDirs(Tail(entries), lines)
    ELSE ZipLoopWithDirs(Tail(entries), lines \o SplitLines(Head(entries).text))

\* the loop of lines 63-78: lines collected so far, entries still to visit
RECURSIVE ZipLoop(_, _)
ZipLoop(entries, lines) ==
    IF entries = <<>> THEN lines
    ELSE IF EndsWith(Head(entries).name, "/") THEN ZipLoop(Tail(entries), lines)
    ELSE IF ~Head(entries).readable THEN ZipLoop(Tail(entries), lines)
    ELSE ZipLoop(Tail(entries), lines \o SplitLines(Head(entries).text))

\* line 79: [ln.strip() for ln in lines if ln and ln.strip()]
read_wordlist_from_file(file_storage) ==
    StripNonEmpty(ZipLoop(file_storage.entries, <<>>))

(***************************************************************************)
(* Hash utilities.  The digests themselves are library code; they are      *)
(* tables over the candidates of the model, injective and in lower case    *)
(* as hexdigest() returns them (the first hex digits of the true values).  *)
(***************************************************************************)
sha256_hex(s) ==
    CASE s = <<"a">> -> <<"c", "a">>
      [] s = <<"b">> -> <<"3", "e">>
      [] s = <<"c">> -> <<"2", "e">>
      [] OTHER -> <<"0", "0">>

hmac_sha512_hex(key, message) ==
    CASE key = <<"a">> -> <<"f", "f", "f", "f", "f", "0", "1", "a", "2", "b", "9">>
      [] key = <<"b">> -> <<"0", "0", "0", "2", "a">>
      [] OTHER -> <<"1", "2">>

\* the loop of lines 46-48 without its test of roll: every chunk is read
RECURSIVE RollScanToEnd(_, _, _)
RollScanToEnd(hmac_hex, pos, roll) ==
    IF pos + 5 <= Len(hmac_hex)
    THEN RollScanToEnd(hmac_hex, pos + 5, HexInt(SubSeq(hmac_hex, pos + 1, pos + 5)))
    ELSE roll

\* extract_roll_from_hmac: the loop of lines 46-48 from position pos
RECURSIVE RollScan(_, _, _)
RollScan(hmac_hex, pos, roll) ==
    IF roll >= 10000 /\ pos + 5 <= Len(hmac_hex)
    THEN RollScan(hmac_hex, pos + 5, HexInt(SubSeq(hmac_hex, pos + 1, pos + 5)))
    ELSE roll

\* the result in hundredths: (roll % 10000) / 100.0 is this number / 100
extract_roll_from_hmac(hmac_hex) == RollScan(hmac_hex, 0, 10001) % 10000

\* str(n) of a natural number
RECURSIVE IntStr(_)
IntStr(n) ==
    IF n < 10 THEN <<CHOOSE d \in Digits : HexVal(d) = n>>
    ELSE Append(IntStr(n \div 10), CHOOSE d \in Digits : HexVal(d) = n % 10)

\* msg = f"{client_seed}:{nonce}"
calculate_dice_roll(server_seed, client_seed, nonce) ==
    extract_roll_from_hmac(
        hmac_sha512_hex(server_seed, client_seed \o <<":">> \o IntStr(nonce)))

(***************************************************************************)
(* State.                                                                  *)
(***************************************************************************)
VARIABLES
    jobs,         \* the dict `jobs`: job id -> the job's fields; lock is TRUE
                  \* while the job's threading.Lock is held (it has no owner)
    workers,      \* job id -> the process_job thread of the job: pc and locals
    calls,        \* the request threads serving pause_job and resume_job
    snap,         \* the request thread serving get_progress
    clock,        \* time.time(), in whole seconds
    startResp,    \* the response of the last start_process request
    ackProcessed, \* job id -> processed when a pause was acknowledged with no
                  \* resume under way, None once a resume is made (history)
    unit          \* a call of one of the module's functions on its own: the
                  \* function, its argument and what it returned

vars == <<jobs, workers, calls, snap, clock, startResp, ackProcessed, unit>>

\* the job ids uuid4() draws from
JobIds == {"j1", "j2"}
\* an id no job ever has
UnknownId == "j0"

Terminal == {"completed", "finished_no_match"}
Statuses == {"queued", "running", "paused"} \cup Terminal

\* the dict literal of lines 219-231
NewJob(wordlist_lines) ==
    [processed |-> 0, total |-> Len(wordlist_lines), done |-> FALSE,
     paused |-> FALSE, speed_per_min |-> <<0, 1>>, eta_seconds |-> None,
     match |-> None, roll |-> None, start_time |-> None, status |-> "queued",
     lock |-> FALSE]

\* the arguments of threading.Thread(target=process_job, args=...) and the
\* locals of process_job
NewWorker(wordlist_lines, target_hash, client_seed, nonce, max_speed) ==
    [pc |-> "start", wordlist_lines |-> wordlist_lines, target_hash |-> target_hash,
     client_seed |-> client_seed, nonce |-> nonce, max_speed |-> max_speed,
     idx |-> 0, hashed_candidate |-> None, roll |-> None, delays |-> 0]

\* the dict of lines 246-255 before any entry is evaluated
EmptyView ==
    [processed |-> None, total |-> None, speed |-> None, eta |-> None,
     done |-> None, match |-> None, roll |-> None, status |-> None]

NoResponse == [code |-> 0, body |-> ""]
Response(code, body) == [code |-> code, body |-> body]

\* a request thread with no request (its last response has left)
IdleCall == [op |-> "none", id |-> "", pc |-> "idle"]
IdleSnap == [id |-> "", pc |-> "idle", view |-> EmptyView]

\* no function is called on its own
NoUnit == [op |-> "none", arg |-> <<>>, ret |-> None]

\* the server has just started: no job, no request
ServerInit ==
    /\ jobs = <<>>
    /\ workers = <<>>
    /\ calls = [i \in 1..MaxCalls |-> IdleCall]
    /\ snap = IdleSnap
    /\ clock = 0
    /\ startResp = NoResponse
    /\ ackProcessed = <<>>

Init == ServerInit /\ unit = NoUnit

(***************************************************************************)
(* process_job: the worker thread of job j.                                *)
(***************************************************************************)
\* a registry whose jobs all share one dict
SetEveryJob(j, job) == jobs' = [k \in DOMAIN jobs |-> job]

SetJob(j, job) == jobs' = [jobs EXCEPT ![j] = job]
SetWorker(j, w) == workers' = [workers EXCEPT ![j] = w]

\* time.time() in the loop: the clock has moved on by any amount since the
\* last reading (only differences of readings are used, so the clock moves
\* at the readings after the first)
ReadsClock(now) == now \in clock..MaxClock /\ clock' = now

\* the head of the for loop (line 126): the next candidate, or the code
\* after the loop (line 173)
NextIteration(w) ==
    IF w.idx < Len(w.wordlist_lines)
    THEN [w EXCEPT !.idx = w.idx + 1, !.pc = "check"]
    ELSE [w EXCEPT !.pc = "fin_done"]

\* lines 112-124, then the loop head
WorkerStart(j) ==
    /\ workers[j].pc = "start"
    /\ SetJob(j, [jobs[j] EXCEPT !.start_time = Some(clock),
                                 !.total = Len(workers[j].wordlist_lines),
                                 !.processed = 0, !.done = FALSE,
                                 !.match = None, !.roll = None,
                                 !.speed_per_min = <<0, 1>>,
                                 !.eta_seconds = None])
    /\ SetWorker(j, NextIteration(workers[j]))
    /\ UNCHANGED <<calls, snap, clock, startResp, ackProcessed, unit>>

\* leaving the with block: the lock is free (again), then lines 135-139
LeaveCheck(j) ==
    /\ SetJob(j, [jobs[j] EXCEPT !.lock = FALSE])
    /\ SetWorker(j, [workers[j] EXCEPT
           !.pc = "count",
           !.hashed_candidate = sha256_hex(workers[j].wordlist_lines[workers[j].idx])])

\* a worker whose pause check never suspends it
WorkerCheckIgnoresPause(j) ==
    /\ workers[j].pc = "check"
    /\ ~jobs[j].lock
    /\ LeaveCheck(j)
    /\ UNCHANGED <<calls, snap, clock, startResp, ackProcessed, unit>>

\* lines 127-128: with job['lock'] waits until the lock is free; if the flag
\* is clear the block is left at once, else the worker enters the loop of
\* line 130 with the lock held.  (Taking the lock and reading the flag are
\* one step: nothing else reads or writes the flag without the lock.)
WorkerCheck(j) ==
    /\ workers[j].pc = "check"
    /\ ~jobs[j].lock
    /\ IF jobs[j].paused
       THEN /\ SetJob(j, [jobs[j] EXCEPT !.lock = TRUE])
            /\ SetWorker(j, [workers[j] EXCEPT !.pc = "spin"])
       ELSE LeaveCheck(j)
    /\ UNCHANGED <<calls, snap, clock, startResp, ackProcessed, unit>>

\* lines 130-131: while job['paused']: time.sleep(0.5), the lock still held
WorkerSpin(j) ==
    /\ workers[j].pc = "spin"
    /\ IF jobs[j].paused
       THEN UNCHANGED <<jobs, workers>>
       ELSE LeaveCheck(j)
    /\ UNCHANGED <<calls, snap, clock, startResp, ackProcessed, unit>>

\* a worker that counts the candidate after the current one
WorkerCountOffByOne(j) ==
    /\ workers[j].pc = "count"
    /\ SetJob(j, [jobs[j] EXCEPT !.processed = workers[j].idx + 1])
    /\ SetWorker(j, [workers[j] EXCEPT !.pc = "speed"])
    /\ UNCHANGED <<calls, snap, clock, startResp, ackProcessed, unit>>

\* line 141
WorkerCount(j) ==
    /\ workers[j].pc = "count"
    /\ SetJob(j, [jobs[j] EXCEPT !.processed = workers[j].idx])
    /\ SetWorker(j, [workers[j] EXCEPT !.pc = "speed"])
    /\ UNCHANGED <<calls, snap, clock, startResp, ackProcessed, unit>>

\* lines 144-147: speed_per_min = (processed / elapsed) * 60.0, kept as the
\* fraction <<numerator, denominator>>
WorkerSpeed(j) ==
    /\ workers[j].pc = "speed"
    /\ \E now \in clock..MaxClock :
          /\ ReadsClock(now)
          /\ LET elapsed == now - jobs[j].start_time[1] IN
             IF elapsed > 0
             THEN SetJob(j, [jobs[j] EXCEPT
                      !.speed_per_min = <<jobs[j].processed * 60, elapsed>>])
             ELSE UNCHANGED jobs
    /\ SetWorker(j, [workers[j] EXCEPT !.pc = "eta"])
    /\ UNCHANGED <<calls, snap, startResp, ackProcessed, unit>>

\* int((remaining / speed_per_min) * 60)
EtaOf(remaining, speed) == (remaining * 60 * speed[2]) \div speed[1]

\* a comparison that respects case
MatchesCaseSensitive(w) == w.hashed_candidate = w.target_hash

\* line 156: hashed_candidate.lower() == target_hash.lower()
Matches(w) == Lower(w.hashed_candidate) = Lower(w.target_hash)

\* lines 150-156: the ETA, then the comparison; line 158 on a match
WorkerEta(j) ==
    /\ workers[j].pc = "eta"
    /\ IF jobs[j].speed_per_min[1] > 0
       THEN SetJob(j, [jobs[j] EXCEPT !.eta_seconds =
                Some(EtaOf(jobs[j].total - jobs[j].processed, jobs[j].speed_per_min))])
       ELSE SetJob(j, [jobs[j] EXCEPT !.eta_seconds = None])
    /\ IF Matches(workers[j])
       THEN SetWorker(j, [workers[j] EXCEPT
                !.pc = "set_match",
                !.roll = Some(calculate_dice_roll(workers[j].wordlist_lines[workers[j].idx],
                                                  workers[j].client_seed,
                                                  workers[j].nonce))])
       ELSE SetWorker(j, [workers[j] EXCEPT !.pc = "throttle"])
    /\ UNCHANGED <<calls, snap, clock, startResp, ackProcessed, unit>>

\* line 159
WorkerSetMatch(j) ==
    /\ workers[j].pc = "set_match"
    /\ SetJob(j, [jobs[j] EXCEPT !.match = Some(workers[j].wordlist_lines[workers[j].idx])])
    /\ SetWorker(j, [workers[j] EXCEPT !.pc = "set_roll"])
    /\ UNCHANGED <<calls, snap, clock, startResp, ackProcessed, unit>>

\* line 160
WorkerSetRoll(j) ==
    /\ workers[j].pc = "set_roll"
    /\ SetJob(j, [jobs[j] EXCEPT !.roll = workers[j].roll])
    /\ SetWorker(j, [workers[j] EXCEPT !.pc = "set_done"])
    /\ UNCHANGED <<calls, snap, clock, startResp, ackProcessed, unit>>

\* line 161
WorkerSetDone(j) ==
    /\ workers[j].pc = "set_done"
    /\ SetJob(j, [jobs[j] EXCEPT !.done = TRUE])
    /\ SetWorker(j, [workers[j] EXCEPT !.pc = "set_status"])
    /\ UNCHANGED <<calls, snap, clock, startResp, ackProcessed, unit>>

\* lines 162-163
WorkerSetStatus(j) ==
    /\ workers[j].pc = "set_status"
    /\ SetJob(j, [jobs[j] EXCEPT !.status = "completed"])
    /\ SetWorker(j, [workers[j] EXCEPT !.pc = "done"])
    /\ UNCHANGED <<calls, snap, clock, startResp, ackProcessed, unit>>

\* a worker that never sleeps between candidates
WorkerThrottleNoDelay(j) ==
    /\ workers[j].pc = "throttle"
    /\ SetWorker(j, NextIteration(workers[j]))
    /\ UNCHANGED <<jobs, calls, snap, clock, startResp, ackProcessed, unit>>

\* lines 166-170: time.sleep(60.0 / max_speed) when max_speed > 0, then the
\* loop head
WorkerThrottle(j) ==
    /\ workers[j].pc = "throttle"
    /\ SetWorker(j, NextIteration(
           IF workers[j].max_speed > 0
           THEN [workers[j] EXCEPT !.delays = workers[j].delays + 1]
           ELSE workers[j]))
    /\ UNCHANGED <<jobs, calls, snap, clock, startResp, ackProcessed, unit>>

\* line 173
WorkerFinDone(j) ==
    /\ workers[j].pc = "fin_done"
    /\ SetJob(j, [jobs[j] EXCEPT !.done = TRUE])
    /\ SetWorker(j, [workers[j] EXCEPT !.pc = "fin_status"])
    /\ UNCHANGED <<calls, snap, clock, startResp, ackProcessed, unit>>

\* line 174
WorkerFinStatus(j) ==
    /\ workers[j].pc = "fin_status"
    /\ SetJob(j, [jobs[j] EXCEPT !.status = "finished_no_match"])
    /\ SetWorker(j, [workers[j] EXCEPT !.pc = "fin_rest"])
    /\ UNCHANGED <<calls, snap, clock, startResp, ackProcessed, unit>>

\* lines 175-177 (match and roll are None already: only line 177 writes a
\* new value)
WorkerFinRest(j) ==
    /\ workers[j].pc = "fin_rest"
    /\ SetJob(j, [jobs[j] EXCEPT !.match = None, !.roll = None, !.eta_seconds = Some(0)])
    /\ SetWorker(j, [workers[j] EXCEPT !.pc = "done"])
    /\ UNCHANGED <<calls, snap, clock, startResp, ackProcessed, unit>>

process_job(j) ==
    \/ WorkerStart(j)
    \/ WorkerCheck(j)
    \/ WorkerSpin(j)
    \/ WorkerCount(j)
    \/ WorkerSpeed(j)
    \/ WorkerEta(j)
    \/ WorkerSetMatch(j)
    \/ WorkerSetRoll(j)
    \/ WorkerSetDone(j)
    \/ WorkerSetStatus(j)
    \/ WorkerThrottle(j)
    \/ WorkerFinDone(j)
    \/ WorkerFinStatus(j)
    \/ WorkerFinRest(j)

(***************************************************************************)
(* pause_job and resume_job, served by request thread i.  The with block   *)
(* is two steps, one for each assignment: the first takes the lock, the    *)
(* second releases it and returns the response, which is built from        *)
(* job_id alone.                                                           *)
(***************************************************************************)
SetCall(i, c) == calls' = [calls EXCEPT ![i] = c]

\* a resume_job request on job id has arrived and not yet returned
ResumeUnderWay(id) ==
    \E k \in 1..MaxCalls : calls[k].op = "resume" /\ calls[k].id = id

\* a lookup that finds every id
LookupFindsAll(i, op, id) ==
    /\ calls[i].pc = "idle"
    /\ \A k \in 1..(i - 1) : calls[k].pc # "idle"
    /\ SetCall(i, [op |-> op, id |-> id, pc |-> "lock"])

\* job = jobs.get(job_id); if not job: ... (lines 259-260, 269-270)
Lookup(i, op, id) ==
    /\ calls[i].pc = "idle"
    /\ \A k \in 1..(i - 1) : calls[k].pc # "idle"
    /\ IF id \in DOMAIN jobs
       THEN SetCall(i, [op |-> op, id |-> id, pc |-> "lock"])
       ELSE SetCall(i, [op |-> op, id |-> id, pc |-> "not_found"])

\* lines 261, 271: return jsonify({"error": "job not found"}), 404
NotFoundReturn(i) ==
    /\ calls[i].pc = "not_found"
    /\ SetCall(i, IdleCall)
    /\ UNCHANGED <<jobs, workers, snap, clock, startResp, ackProcessed, unit>>


\* lines 258-261
PauseLookup(i, id) ==
    /\ Lookup(i, "pause", id)
    /\ UNCHANGED <<jobs, workers, snap, clock, startResp, ackProcessed, unit>>

\* a pause_job that writes the flag without taking the lock
PauseSetFlagUnlocked(i) ==
    /\ calls[i].op = "pause" /\ calls[i].pc = "lock"
    /\ SetJob(calls[i].id, [jobs[calls[i].id] EXCEPT !.paused = TRUE])
    /\ SetCall(i, [calls[i] EXCEPT !.pc = "status"])
    /\ UNCHANGED <<workers, snap, clock, startResp, ackProcessed, unit>>

\* lines 262-263: with job['lock'] waits until the lock is free
PauseSetFlag(i) ==
    /\ calls[i].op = "pause" /\ calls[i].pc = "lock"
    /\ ~jobs[calls[i].id].lock
    /\ SetJob(calls[i].id, [jobs[calls[i].id] EXCEPT !.lock = TRUE, !.paused = TRUE])
    /\ SetCall(i, [calls[i] EXCEPT !.pc = "status"])
    /\ UNCHANGED <<workers, snap, clock, startResp, ackProcessed, unit>>

\* lines 264-265.  ackProcessed notes processed at the first acknowledgement
\* of a pause with no resume request under way.
PauseSetStatus(i) ==
    /\ calls[i].op = "pause" /\ calls[i].pc = "status"
    /\ SetJob(calls[i].id, [jobs[calls[i].id] EXCEPT !.status = "paused", !.lock = FALSE])
    /\ SetCall(i, IdleCall)
    /\ ackProcessed' =
          IF ~ResumeUnderWay(calls[i].id) /\ ackProcessed[calls[i].id] = None
          THEN [ackProcessed EXCEPT ![calls[i].id] = Some(jobs[calls[i].id].processed)]
          ELSE ackProcessed
    /\ UNCHANGED <<workers, snap, clock, startResp, unit>>

\* lines 262-265
PauseSection(i) == PauseSetFlag(i) \/ PauseSetStatus(i)

\* pause_job for the requests that name a job of the registry
PauseKnown(i) ==
    \/ \E id \in DOMAIN jobs : PauseLookup(i, id)
    \/ PauseSection(i)

pause_job(i) ==
    \/ PauseKnown(i)
    \/ PauseLookup(i, UnknownId)
    \/ (calls[i].op = "pause" /\ NotFoundReturn(i))

\* lines 268-271
ResumeLookup(i, id) ==
    /\ Lookup(i, "resume", id)
    /\ ackProcessed' =
          IF id \in DOMAIN jobs THEN [ackProcessed EXCEPT ![id] = None] ELSE ackProcessed
    /\ UNCHANGED <<jobs, workers, snap, clock, startResp, unit>>

\* lines 272-273: with job['lock'] waits until the lock is free
ResumeSetFlag(i) ==
    /\ calls[i].op = "resume" /\ calls[i].pc = "lock"
    /\ ~jobs[calls[i].id].lock
    /\ SetJob(calls[i].id, [jobs[calls[i].id] EXCEPT !.lock = TRUE, !.paused = FALSE])
    /\ SetCall(i, [calls[i] EXCEPT !.pc = "status"])
    /\ UNCHANGED <<workers, snap, clock, startResp, ackProcessed, unit>>

\* lines 274-275
ResumeSetStatus(i) ==
    /\ calls[i].op = "resume" /\ calls[i].pc = "status"
    /\ SetJob(calls[i].id, [jobs[calls[i].id] EXCEPT !.status = "running", !.lock = FALSE])
    /\ SetCall(i, IdleCall)
    /\ UNCHANGED <<workers, snap, clock, startResp, ackProcessed, unit>>

\* lines 272-275
ResumeSection(i) == ResumeSetFlag(i) \/ ResumeSetStatus(i)

\* resume_job for the requests that name a job of the registry
ResumeKnown(i) ==
    \/ \E id \in DOMAIN jobs : ResumeLookup(i, id)
    \/ ResumeSection(i)

resume_job(i) ==
    \/ ResumeKnown(i)
    \/ ResumeLookup(i, UnknownId)
    \/ (calls[i].op = "resume" /\ NotFoundReturn(i))

(***************************************************************************)
(* get_progress.  It takes no lock and writes nothing, so requests served  *)
(* side by side do not affect one another: one thread serves them in turn. *)
(***************************************************************************)
\* round(speed_per_min, 2), in hundredths
Round2(speed) == (200 * speed[1] + speed[2]) \div (2 * speed[2])

\* lines 240-243
ProgressLookup(id) ==
    /\ snap.pc = "idle"
    /\ IF id \in DOMAIN jobs
       THEN snap' = [id |-> id, pc |-> "processed", view |-> EmptyView]
       ELSE snap' = [id |-> id, pc |-> "not_found", view |-> EmptyView]
    /\ UNCHANGED <<jobs, workers, calls, clock, startResp, ackProcessed, unit>>

\* the value of one entry of the dict of lines 246-255
FieldRead(job, field) ==
    CASE field = "processed" -> Some(job.processed)
      [] field = "total" -> Some(job.total)
      [] field = "speed" -> Some(Round2(job.speed_per_min))
      [] field = "eta" -> job.eta_seconds
      [] field = "done" -> Some(job.done)
      [] field = "match" -> job.match
      [] field = "roll" -> job.roll
      [] field = "status" -> Some(job.status)

\* the order in which the entries are evaluated
AfterField(field) ==
    CASE field = "processed" -> "total"
      [] field = "total" -> "speed"
      [] field = "speed" -> "eta"
      [] field = "eta" -> "done"
      [] field = "done" -> "match"
      [] field = "match" -> "roll"
      [] field = "roll" -> "status"
      [] field = "status" -> "return"

\* a get_progress that reads the entries with the job's lock
ProgressReadLocked ==
    /\ snap.pc \in DOMAIN EmptyView
    /\ ~jobs[snap.id].lock
    /\ snap' = [snap EXCEPT !.view[snap.pc] = FieldRead(jobs[snap.id], snap.pc),
                            !.pc = AfterField(snap.pc)]
    /\ UNCHANGED <<jobs, workers, calls, clock, startResp, ackProcessed, unit>>

\* lines 247-254, one entry at a time
ProgressRead ==
    /\ snap.pc \in DOMAIN EmptyView
    /\ snap' = [snap EXCEPT !.view[snap.pc] = FieldRead(jobs[snap.id], snap.pc),
                            !.pc = AfterField(snap.pc)]
    /\ UNCHANGED <<jobs, workers, calls, clock, startResp, ackProcessed, unit>>

\* line 255: the response leaves with the view
ProgressReturn ==
    /\ snap.pc = "return"
    /\ snap' = IdleSnap
    /\ UNCHANGED <<jobs, workers, calls, clock, startResp, ackProcessed, unit>>

\* line 243: return jsonify({"error": "job not found"}), 404
ProgressNotFound ==
    /\ snap.pc = "not_found"
    /\ snap' = IdleSnap
    /\ UNCHANGED <<jobs, workers, calls, clock, startResp, ackProcessed, unit>>

\* get_progress for the requests that name a job of the registry
ProgressKnown ==
    \/ \E id \in DOMAIN jobs : ProgressLookup(id)
    \/ ProgressRead
    \/ ProgressReturn

get_progress ==
    \/ ProgressKnown
    \/ ProgressLookup(UnknownId)
    \/ ProgressNotFound

(***************************************************************************)
(* start_process.                                                          *)
(***************************************************************************)
\* "\n".join(lines)
RECURSIVE JoinLines(_)
JoinLines(lines) ==
    IF lines = <<>> THEN <<>>
    ELSE IF Len(lines) = 1 THEN Head(lines)
    ELSE Head(lines) \o <<"\n">> \o JoinLines(Tail(lines))

\* the lines a posted text is made of, and the texts of at most MaxLen lines
RawLines == {<<" ">>, <<"a">>, <<"b", " ">>}
Texts == {JoinLines(ls) : ls \in UNION {[1..n -> RawLines] : n \in 0..MaxLen}}

\* the request forms: each field as posted (empty when the field is absent)
Forms ==
    [hashedSeed : {<<>>, <<" ", "C", "A">>},
     clientSeed : {<<>>, <<"s">>},
     nonce : {<<>>, <<"x">>, <<"7">>},
     speed : {<<>>, <<"x">>, <<"0">>},
     source : [kind : {"text"}, text : Texts] \cup {[kind |-> "none", text |-> <<>>]}]

\* the default of line 202
DefaultSpeed == 20000

\* lines 201-204
MaxSpeedOf(speed_str) ==
    IF speed_str # <<>> /\ IsInt(speed_str) THEN DecInt(speed_str) ELSE DefaultSpeed

\* lines 207-213, for a request whose candidates are posted as text
WordlistOf(source) == StripNonEmpty(SplitLines(source.text))

\* line 218: uuid4() gives an id not in use; ids are opaque to the code, so
\* they are taken in a fixed order
FreshId == IF "j1" \notin DOMAIN jobs THEN "j1" ELSE "j2"

\* lines 218-237: the job and its thread
CreateJob(job_id, wordlist_lines, hashedSeed, clientSeed, nonce, max_speed) ==
    /\ jobs' = (job_id :> NewJob(wordlist_lines)) @@ jobs
    /\ workers' = (job_id :> NewWorker(wordlist_lines, hashedSeed, clientSeed,
                                        nonce, max_speed)) @@ workers
    /\ ackProcessed' = (job_id :> None) @@ ackProcessed
    /\ startResp' = Response(200, job_id)

\* a rejection that registers an empty job all the same
RejectsAfterRegistering(error) ==
    /\ startResp' = Response(400, error)
    /\ JobIds \ DOMAIN jobs # {}
    /\ jobs' = (FreshId :> NewJob(<<>>)) @@ jobs
    /\ UNCHANGED <<workers, ackProcessed>>

\* lines 196, 200, 215: a 400 response, nothing else
Rejects(error) ==
    /\ startResp' = Response(400, error)
    /\ UNCHANGED <<jobs, workers, ackProcessed>>

\* lines 187-237
start_process(form) ==
    /\ LET hashedSeed == Strip(form.hashedSeed)
           clientSeed == Strip(form.clientSeed)
           nonce_str == Strip(form.nonce)
           speed_str == Strip(form.speed)
       IN  IF hashedSeed = <<>> \/ clientSeed = <<>> \/ nonce_str = <<>>
           THEN Rejects("missing required fields (hashedSeed, clientSeed, nonce)")
           ELSE IF ~IsInt(nonce_str)
           THEN Rejects("nonce must be an integer")
           ELSE IF form.source.kind = "none"
           THEN Rejects("no wordlist provided")
           ELSE /\ JobIds \ DOMAIN jobs # {}
                /\ CreateJob(FreshId, WordlistOf(form.source), hashedSeed, clientSeed,
                             DecInt(nonce_str), MaxSpeedOf(speed_str))
    /\ UNCHANGED <<calls, snap, clock, unit>>

(***************************************************************************)
(* The system: requests arrive at any time, every thread runs at its own   *)
(* pace.                                                                   *)
(***************************************************************************)
WorkerStep(j) == j \in DOMAIN jobs /\ process_job(j)

\* a start_process request served while the registry is empty: the system
\* with a single job
StartStep(form) == DOMAIN jobs = {} /\ start_process(form)

\* a step of request thread i after its request has arrived
CallStep(i) == PauseSection(i) \/ ResumeSection(i) \/ NotFoundReturn(i)

\* a step of the get_progress thread after its request has arrived
SnapStep == ProgressRead \/ ProgressReturn \/ ProgressNotFound

Next ==
    \/ \E form \in Forms : StartStep(form)
    \/ \E j \in JobIds : WorkerStep(j)
    \/ \E i \in 1..MaxCalls : pause_job(i)
    \/ \E i \in 1..MaxCalls : resume_job(i)
    \/ get_progress

Spec == Init /\ [][Next]_vars

\* every started thread is scheduled again and again, and a thread that
\* waits for a lock which is free again and again gets it in the end (this
\* implies weak fairness of every thread)
Fairness ==
    /\ \A j \in JobIds : SF_vars(WorkerStep(j))
    /\ \A i \in 1..MaxCalls : SF_vars(CallStep(i))
    /\ WF_vars(SnapStep)

\* the system when every request names a job of the registry and nobody
\* asks for progress (get_progress writes nothing)
ControlNext ==
    \/ \E form \in Forms : StartStep(form)
    \/ \E j \in JobIds : WorkerStep(j)
    \/ \E i \in 1..MaxCalls : PauseKnown(i)
    \/ \E i \in 1..MaxCalls : ResumeKnown(i)

ControlSpec == Init /\ [][ControlNext]_vars

FairControlSpec == ControlSpec /\ Fairness

\* the same system when no job is ever paused
NoPauseNext ==
    \/ \E form \in Forms : StartStep(form)
    \/ \E j \in JobIds : WorkerStep(j)
    \/ \E i \in 1..MaxCalls : ResumeKnown(i)

FairNoPauseSpec == Init /\ [][NoPauseNext]_vars /\ Fairness

\* the system when nobody pauses or resumes
WatchNext ==
    \/ \E form \in Forms : StartStep(form)
    \/ \E j \in JobIds : WorkerStep(j)
    \/ get_progress

WatchSpec == Init /\ [][WatchNext]_vars

\* the system when requests with an unknown id arrive while a job runs and
\* is paused
NotFoundNext ==
    \/ \E form \in Forms : StartStep(form)
    \/ \E j \in JobIds : WorkerStep(j)
    \/ \E i \in 1..MaxCalls : pause_job(i)
    \/ \E i \in 1..MaxCalls : ResumeLookup(i, UnknownId)
    \/ \E i \in 1..MaxCalls : (calls[i].op = "resume" /\ NotFoundReturn(i))
    \/ ProgressLookup(UnknownId)
    \/ ProgressNotFound

NotFoundSpec == Init /\ [][NotFoundNext]_vars

\* no pause_job or resume_job request is being served
NoCall == \A i \in 1..MaxCalls : calls[i].pc = "idle"

\* the system when every request names a job of the registry, nobody
\* resumes and the requests to pause come one at a time
SuspendNext ==
    \/ \E form \in Forms : StartStep(form)
    \/ \E j \in JobIds : WorkerStep(j)
    \/ \E i \in 1..MaxCalls : \E id \in DOMAIN jobs : NoCall /\ PauseLookup(i, id)
    \/ \E i \in 1..MaxCalls : PauseSection(i)
    \/ ProgressKnown

SuspendSpec == Init /\ [][SuspendNext]_vars

\* a start_process request served at any time, creating a job only while
\* the registry is empty
StartAnyTime(form) == start_process(form) /\ (DOMAIN jobs = {} \/ jobs' = jobs)

\* the system with a single job when nobody pauses, resumes or asks for
\* progress and further requests to start a job keep arriving
StartNext ==
    \/ \E form \in Forms : StartAnyTime(form)
    \/ \E j \in JobIds : WorkerStep(j)

StartSpec == Init /\ [][StartNext]_vars

\* the forms of the system with two jobs: well-formed requests with one
\* candidate, which is the pre-image or is not
TwoJobForms ==
    {form \in Forms :
        /\ Strip(form.hashedSeed) # <<>> /\ form.clientSeed # <<>>
        /\ form.nonce = <<"7">> /\ form.speed = <<>>
        /\ form.source.kind = "text"
        /\ form.source.text \in {<<"a">>, <<"b", " ">>}}

\* no request is being served
NoRequest == snap.pc = "idle" /\ \A i \in 1..MaxCalls : calls[i].pc = "idle"

\* the job that was registered first
FirstJob == DOMAIN jobs \cap {"j1"}

\* the system with two jobs, both workers running, and a client that sends
\* its requests one at a time, all of them about the first job
TwoJobNext ==
    \/ \E form \in TwoJobForms : start_process(form)
    \/ \E j \in JobIds : WorkerStep(j)
    \/ \E i \in 1..MaxCalls : \E id \in FirstJob : NoRequest /\ PauseLookup(i, id)
    \/ \E i \in 1..MaxCalls : \E id \in FirstJob : NoRequest /\ ResumeLookup(i, id)
    \/ \E id \in FirstJob : NoRequest /\ ProgressLookup(id)
    \/ \E i \in 1..MaxCalls : PauseSection(i)
    \/ \E i \in 1..MaxCalls : ResumeSection(i)
    \/ ProgressRead
    \/ ProgressReturn

TwoJobSpec == Init /\ [][TwoJobNext]_vars

(***************************************************************************)
(* Vocabulary of the properties.                                           *)
(***************************************************************************)
Created(j) == j \in DOMAIN jobs

\* two hex digests are equal when case is ignored
SameDigest(d, e) ==
    Len(d) = Len(e) /\ \A k \in 1..Len(d) : HexVal(d[k]) = HexVal(e[k])

\* the positions of the candidates of job j that are pre-images of its target
PreimagePositions(j) ==
    {k \in 1..Len(workers[j].wordlist_lines) :
        SameDigest(sha256_hex(workers[j].wordlist_lines[k]), workers[j].target_hash)}

HasPreimage(j) == PreimagePositions(j) # {}

\* the position of the first pre-image
FirstPreimage(j) ==
    CHOOSE k \in PreimagePositions(j) : \A m \in PreimagePositions(j) : k <= m

\* job j shows a terminal status
Finished(j) == Created(j) /\ jobs[j].status \in Terminal

\* the worker of job j has returned
WorkerDone(j) == Created(j) /\ workers[j].pc = "done"

\* the worker of job j returns in this step
WorkerReturns(j) == Created(j) /\ workers[j].pc # "done" /\ workers'[j].pc = "done"

PauseUnderWay(j) == \E k \in 1..MaxCalls : calls[k].op = "pause" /\ calls[k].id = j

\* a resume request on job j waits for the lock while the job is paused,
\* not finished and not exhausted, and no pause request is under way
ResumeOfPausedJob(j) ==
    /\ Created(j)
    /\ ResumeUnderWay(j)
    /\ ~PauseUnderWay(j)
    /\ jobs[j].paused
    /\ jobs[j].status \notin Terminal
    /\ workers[j].pc # "done"
    /\ jobs[j].processed < jobs[j].total

(***************************************************************************)
(* C1 (refuted by the code).  If a job that is not finished and has        *)
(* candidates left is paused and a resume request is then made for it,     *)
(* with no later pause, the job eventually reaches completed or            *)
(* finished_no_match (under weak fairness of every thread).                *)
(***************************************************************************)
C1_ResumeWakesWorker ==
    \A j \in JobIds :
        [](ResumeOfPausedJob(j) =>
              <>(Finished(j) \/ PauseUnderWay(j)))

(***************************************************************************)
(* C2 (refuted by the code).  No pause or resume request on an existing    *)
(* job is blocked forever on the job's lock: whenever a request waits for  *)
(* the lock, it or some started thread can still take a step that changes  *)
(* the state.  (New requests change neither the lock nor the flag without  *)
(* the lock, so a waiting request in a state where no started thread can   *)
(* move waits forever.)                                                    *)
(***************************************************************************)
SomeThreadMoves ==
    \/ \E j \in JobIds : ENABLED <<WorkerStep(j)>>_vars
    \/ \E k \in 1..MaxCalls : ENABLED <<CallStep(k)>>_vars

C2_NoCallerBlockedForever ==
    \A i \in 1..MaxCalls : calls[i].pc = "lock" => SomeThreadMoves

(***************************************************************************)
(* C3 (refuted by the code).  Terminal states are absorbing: no step       *)
(* changes a status that is completed or finished_no_match.                *)
(***************************************************************************)
C3_TerminalAbsorbing ==
    [][\A j \in DOMAIN jobs :
          jobs[j].status \in Terminal => jobs'[j].status = jobs[j].status]_vars

(***************************************************************************)
(* C4 as stated (refuted by the code).  Once a pause has been acknowledged *)
(* and until a resume request is made, processed stays what it was at the  *)
(* acknowledgement.                                                        *)
(***************************************************************************)
C4_ProcessedFrozen ==
    \A j \in DOMAIN jobs :
        ackProcessed[j] # None => jobs[j].processed = ackProcessed[j][1]

(***************************************************************************)
(* C4 as amended.  Once a pause has been acknowledged (no resume request   *)
(* under way) and until a resume request is made, processed changes only   *)
(* in one way: from its value at the acknowledgement to that value plus    *)
(* one, written by a worker that had passed its pause check before the     *)
(* pause took effect (it is at line 141).                                  *)
(***************************************************************************)
C4_OnlyCandidateInFlight ==
    [][\A j \in DOMAIN jobs :
          (/\ ackProcessed[j] # None
           /\ ackProcessed'[j] # None
           /\ jobs'[j].processed # jobs[j].processed)
          => /\ jobs[j].processed = ackProcessed[j][1]
             /\ jobs'[j].processed = ackProcessed[j][1] + 1
             /\ workers[j].pc = "count"]_vars

\* a pause is in force and the candidate in flight has been counted
C4_Witness ==
    \E j \in DOMAIN jobs :
        /\ ackProcessed[j] # None
        /\ jobs[j].processed = ackProcessed[j][1] + 1
        /\ jobs[j].paused

(***************************************************************************)
(* C5.  For a job that is never paused and whose list holds a pre-image of *)
(* the target digest (case ignored), the worker terminates; when it        *)
(* returns, status is completed, match is the first pre-image in list      *)
(* order, roll is set and processed is that candidate's 1-based position;  *)
(* the worker never goes past that position.                               *)
(***************************************************************************)
C5_FirstPreimageWins ==
    /\ \A j \in JobIds :
          [](Created(j) => <>WorkerDone(j))
    /\ [][\A j \in JobIds :
            (WorkerReturns(j) /\ HasPreimage(j))
            => /\ jobs'[j].status = "completed"
               /\ jobs'[j].match =
                      Some(workers[j].wordlist_lines[FirstPreimage(j)])
               /\ jobs'[j].roll # None
               /\ jobs'[j].done
               /\ jobs'[j].processed = FirstPreimage(j)]_vars
    /\ [](\A j \in DOMAIN jobs :
            HasPreimage(j) => workers[j].idx <= FirstPreimage(j))

\* the worker has returned from a list whose first pre-image is not the
\* first candidate, and the digest differs from the target in case
C5_Witness ==
    \E j \in DOMAIN jobs :
        /\ workers[j].pc = "done"
        /\ HasPreimage(j)
        /\ FirstPreimage(j) = 2
        /\ sha256_hex(workers[j].wordlist_lines[2]) # workers[j].target_hash
        /\ jobs[j].status = "completed"
        /\ jobs[j].processed = 2

(***************************************************************************)
(* C6 (refuted by the code).  For a job that is never paused and whose     *)
(* list (possibly empty) holds no pre-image of the target digest, when the *)
(* worker returns status is finished_no_match, match and roll are absent,  *)
(* eta_seconds is 0 and processed equals total.                            *)
(***************************************************************************)
C6_ExhaustedMeansNoMatch ==
    [][\A j \in JobIds :
          (WorkerReturns(j) /\ ~HasPreimage(j))
          => /\ jobs'[j].status = "finished_no_match"
             /\ jobs'[j].match = None
             /\ jobs'[j].roll = None
             /\ jobs'[j].eta_seconds = Some(0)
             /\ jobs'[j].processed = jobs'[j].total]_vars

(***************************************************************************)
(* C7.  In every state of a job 0 <= processed <= total, and no step       *)
(* lowers processed, whatever the interleaving of the worker with          *)
(* start_process, pause_job and resume_job.  (get_progress writes no field *)
(* of a job, so what two snapshots in time order show of processed follows *)
(* from this.)                                                             *)
(***************************************************************************)
C7_ProcessedBoundedMonotone ==
    [][\A j \in DOMAIN jobs' :
          /\ 0 <= jobs'[j].processed
          /\ jobs'[j].processed <= jobs'[j].total
          /\ j \in DOMAIN jobs => jobs'[j].processed >= jobs[j].processed]_vars

\* the worker has counted the last candidate of a list of several
C7_Witness ==
    \E j \in DOMAIN jobs :
        /\ jobs[j].total > 1
        /\ jobs[j].processed = jobs[j].total

(***************************************************************************)
(* C8 (refuted by the code).  In every snapshot get_progress returns,      *)
(* match is present if and only if roll is present.                        *)
(***************************************************************************)
C8_NoTornSnapshot ==
    snap.pc = "return"
    => (snap.view.match # None <=> snap.view.roll # None)

(***************************************************************************)
(* C9 (refuted by the code).  In every state, and in every snapshot,       *)
(* match is present only if status is completed.                           *)
(***************************************************************************)
C9_MatchOnlyWhenCompleted ==
    /\ \A j \in DOMAIN jobs :
          jobs[j].match # None => jobs[j].status = "completed"
    /\ snap.pc = "return"
       => (snap.view.match # None => snap.view.status = Some("completed"))

(***************************************************************************)
(* C10 (refuted by the code).  In every state where status is queued the   *)
(* worker has counted no candidate.                                        *)
(***************************************************************************)
C10_QueuedBeforeAnyCandidate ==
    \A j \in DOMAIN jobs :
        jobs[j].status = "queued" => jobs[j].processed = 0

C12_EmptySourceRejected ==
    [][\A form \in Forms :
          (/\ start_process(form)
           /\ form.source.kind # "none"
           /\ WordlistOf(form.source) = <<>>)
          => jobs' = jobs /\ workers' = workers]_vars

(***************************************************************************)
(* C13.  A start_process request with a missing target digest, client seed *)
(* or nonce, with a nonce that is not an integer, or with no candidate     *)
(* source is answered 400 and changes neither the registry nor the set of  *)
(* workers.                                                                *)
(***************************************************************************)
Blank(s) == \A k \in 1..Len(s) : s[k] \in {" ", "\t"}

NotANumber(s) == \E k \in 1..Len(s) : s[k] \notin Digits \cup {" ", "\t"}

InvalidForm(form) ==
    \/ Blank(form.hashedSeed)
    \/ Blank(form.clientSeed)
    \/ Blank(form.nonce)
    \/ NotANumber(form.nonce)
    \/ form.source.kind = "none"

C13_InvalidStartRejected ==
    [][\/ /\ jobs' = jobs
          /\ workers' = workers
          /\ startResp'.code = 400
       \/ \A form \in Forms : ~(InvalidForm(form) /\ start_process(form))]_vars

\* a request with a nonce that is no integer has been rejected while a job
\* was in the registry
C13_Witness ==
    /\ startResp = Response(400, "nonce must be an integer")
    /\ DOMAIN jobs # {}
    /\ DOMAIN workers = DOMAIN jobs

(***************************************************************************)
(* C19.  With max_speed > 0 the worker sleeps once after every candidate   *)
(* that does not match, before it examines the next one: while candidate   *)
(* idx is examined it has slept idx - 1 times, a run without a match over  *)
(* n candidates has slept at least n - 1 times when it sets                *)
(* finished_no_match, and no sleep follows the matching candidate.  With   *)
(* max_speed <= 0 it never sleeps.                                         *)
(***************************************************************************)
AfterLoop == {"fin_done", "fin_status", "fin_rest"}

C19_ThrottleDelays ==
    \A j \in DOMAIN jobs :
        LET w == workers[j]
            n == Len(w.wordlist_lines)
        IN  IF w.max_speed > 0
            THEN /\ w.pc \notin AfterLoop \cup {"start", "done"}
                    => w.delays = w.idx - 1
                 /\ w.pc \in AfterLoop \/ (w.pc = "done" /\ ~HasPreimage(j))
                    => w.delays >= n - 1
                 /\ (w.pc = "done" /\ HasPreimage(j))
                    => w.delays = FirstPreimage(j) - 1
            ELSE w.delays = 0

\* a capped worker has run through two candidates without a match
C19_Witness ==
    \E j \in DOMAIN jobs :
        /\ workers[j].max_speed > 0
        /\ workers[j].pc = "done"
        /\ ~HasPreimage(j)
        /\ jobs[j].total = 2
        /\ workers[j].delays >= 1

(***************************************************************************)
(* C17.  pause_job and resume_job requests on the same job serialize:      *)
(* whenever none of them is inside its with block and the job's status is  *)
(* not terminal, the flag and the status are those of one and the same     *)
(* request, the last to write the flag (flag set with status paused, flag  *)
(* clear with status running, or both untouched).                          *)
(***************************************************************************)
InSection(j) == \E i \in 1..MaxCalls : calls[i].id = j /\ calls[i].pc = "status"

C17_FlagAndStatusAgree ==
    \A j \in DOMAIN jobs :
        (~InSection(j) /\ jobs[j].status \notin Terminal)
        => (jobs[j].paused <=> jobs[j].status = "paused")

\* a resume has gone through its with block while a pause request on the
\* same job was waiting for the lock
C17_Witness ==
    \E j \in DOMAIN jobs : \E i \in 1..MaxCalls :
        /\ calls[i] = [op |-> "pause", id |-> j, pc |-> "lock"]
        /\ ~InSection(j)
        /\ jobs[j].status = "running"
        /\ ~jobs[j].paused

(***************************************************************************)
(* C14.  A get_progress, pause_job or resume_job request whose job id is   *)
(* not in the registry is answered 404 "job not found": its handler goes   *)
(* nowhere but to the return of lines 243, 261, 271, and neither its       *)
(* arrival nor its return adds an entry to the registry or changes a field *)
(* of a job.                                                               *)
(***************************************************************************)
C14_UnknownIdNotFound ==
    /\ [](\A i \in 1..MaxCalls :
            (calls[i].pc # "idle" /\ calls[i].id \notin DOMAIN jobs)
            => calls[i].pc = "not_found")
    /\ []((snap.pc # "idle" /\ snap.id \notin DOMAIN jobs)
            => (snap.pc = "not_found" /\ snap.view = EmptyView))
    /\ [][\A i \in 1..MaxCalls :
            (calls'[i] # calls[i] /\ "not_found" \in {calls[i].pc, calls'[i].pc})
            => jobs' = jobs /\ workers' = workers]_vars
    /\ [][(snap' # snap /\ "not_found" \in {snap.pc, snap'.pc})
            => jobs' = jobs /\ workers' = workers]_vars

\* a pause_job or resume_job request and a get_progress request, both for an
\* unknown id, are about to return 404 while a job is in the registry
C14_Witness ==
    /\ DOMAIN jobs # {}
    /\ snap.pc = "not_found"
    /\ \E i \in 1..MaxCalls : calls[i].pc = "not_found"

(***************************************************************************)
(* C18.  A suspended worker does not suspend observation: a get_progress   *)
(* request never waits (it can always take its next step, also while the   *)
(* worker of its job sits in the loop of lines 130-131 with the lock       *)
(* held); what it reads of processed, total and status while the worker    *)
(* is suspended is the job's current value, and that value does not change *)
(* as long as the worker stays suspended.                                  *)
(***************************************************************************)
Suspended(j) == Created(j) /\ workers[j].pc = "spin"

C18_SnapshotWhileSuspended ==
    /\ [](snap.pc # "idle" => ENABLED <<SnapStep>>_vars)
    /\ [][\A f \in {"processed", "total", "status"} :
            (snap.pc = f /\ Suspended(snap.id) /\ snap' # snap)
            => snap'.view[f] = Some(jobs[snap.id][f])]_vars
    /\ [][\A j \in DOMAIN jobs :
            (Suspended(j) /\ workers'[j].pc = "spin")
            => /\ jobs'[j].processed = jobs[j].processed
               /\ jobs'[j].total = jobs[j].total
               /\ jobs'[j].status = jobs[j].status]_vars

\* a snapshot of a job whose worker is suspended after counting a candidate
\* is about to return
C18_Witness ==
    \E j \in DOMAIN jobs :
        /\ Suspended(j)
        /\ snap.id = j /\ snap.pc = "return"
        /\ jobs[j].processed > 0
        /\ snap.view.processed = Some(jobs[j].processed)
        /\ snap.view.total = Some(jobs[j].total)
        /\ snap.view.status = Some("paused")

(***************************************************************************)
(* C11.  Jobs are isolated.  With two jobs in the registry, a step made    *)
(* for one job (by its worker, or by a pause_job, resume_job or            *)
(* get_progress request that names it) leaves every field of the other    *)
(* job, and the other job's worker, as they were; and a worker that has    *)
(* not returned can take its next step unless it waits for the lock or the *)
(* flag of its own job, whatever happens to the other job.                 *)
(***************************************************************************)
StepFor(a) ==
    \/ workers'[a] # workers[a]
    \/ \E i \in 1..MaxCalls : calls'[i] # calls[i] /\ a \in {calls[i].id, calls'[i].id}
    \/ snap' # snap /\ a \in {snap.id, snap'.id}

WaitsOnOwnJob(b) ==
    \/ workers[b].pc = "check" /\ jobs[b].lock
    \/ workers[b].pc = "spin" /\ jobs[b].paused

C11_JobsIsolated ==
    /\ [][\A a \in DOMAIN jobs : \A b \in DOMAIN jobs \ {a} :
            StepFor(a) => jobs'[b] = jobs[b] /\ workers'[b] = workers[b]]_vars
    /\ [](\A b \in DOMAIN jobs :
            (workers[b].pc # "done" /\ ~WaitsOnOwnJob(b))
            => ENABLED <<WorkerStep(b)>>_vars)

\* one job is paused with its worker suspended, the other has run to its end
\* untouched
C11_Witness ==
    \E a \in DOMAIN jobs : \E b \in DOMAIN jobs \ {a} :
        /\ Suspended(a)
        /\ jobs[a].status = "paused"
        /\ workers[b].pc = "done"
        /\ jobs[b].status \in Terminal
        /\ jobs[b].processed = 1
        /\ ~jobs[b].paused

(***************************************************************************)
(* extract_roll_from_hmac on its own: the digest is any string of hex      *)
(* digits, here up to MaxChunks full chunks followed by fewer than five    *)
(* further digits.  The chunks are 0, 9999, 10000, 59999 and 1048575, in   *)
(* both letter cases.                                                      *)
(***************************************************************************)
RollChunks ==
    { <<"0", "0", "0", "0", "0">>,
      <<"0", "2", "7", "0", "f">>,
      <<"0", "2", "7", "1", "0">>,
      <<"0", "E", "A", "5", "F">>,
      <<"f", "f", "f", "f", "f">> }

RollTails == { <<>>, <<"0">>, <<"0", "2", "7", "0">> }

RECURSIVE ChunkStrings(_)
ChunkStrings(n) ==
    IF n = 0 THEN { <<>> }
    ELSE { <<>> } \cup { c \o s : c \in RollChunks, s \in ChunkStrings(n - 1) }

HexDigests == { s \o t : s \in ChunkStrings(MaxChunks), t \in RollTails }

RollInit ==
    /\ ServerInit
    /\ unit \in { [op |-> "extract_roll_from_hmac", arg |-> h, ret |-> None] :
                    h \in HexDigests }

RollApply ==
    /\ unit.op = "extract_roll_from_hmac"
    /\ unit.ret = None
    /\ unit' = [unit EXCEPT !.ret = Some(extract_roll_from_hmac(unit.arg))]
    /\ UNCHANGED <<jobs, workers, calls, snap, clock, startResp, ackProcessed>>

RollSpec == RollInit /\ [][RollApply]_vars

(***************************************************************************)
(* C15.  For every hex digest, extract_roll_from_hmac takes as roll the    *)
(* first full 5-character chunk, read as an unsigned base-16 number, whose *)
(* value is below 10000, or the last full chunk when every full chunk is   *)
(* at least 10000, and returns (roll mod 10000) / 100; the result in       *)
(* hundredths is an integer in 0..9999, also for a digest shorter than one *)
(* chunk.                                                                  *)
(***************************************************************************)
Pow16(k) == IF k = 0 THEN 1 ELSE IF k = 1 THEN 16 ELSE IF k = 2 THEN 256
            ELSE IF k = 3 THEN 4096 ELSE 65536

\* the value of the k-th full chunk of h, digit by digit
ChunkValue(h, k) ==
    LET d(i) == HexVal(h[5 * (k - 1) + i])
    IN  d(1) * Pow16(4) + d(2) * Pow16(3) + d(3) * Pow16(2) + d(4) * Pow16(1) + d(5)

FullChunks(h) == 1..(Len(h) \div 5)

BelowLimit(h) == { k \in FullChunks(h) : ChunkValue(h, k) < 10000 }

Returned(op) == unit.op = op /\ unit.ret # None

C15_RollFromFirstLowChunk ==
    Returned("extract_roll_from_hmac") =>
        LET h == unit.arg
            r == unit.ret[1]
        IN  /\ r \in 0..9999
            /\ BelowLimit(h) # {} =>
                 \E k \in BelowLimit(h) :
                    /\ \A m \in BelowLimit(h) : k <= m
                    /\ r = ChunkValue(h, k) % 10000
            /\ (BelowLimit(h) = {} /\ FullChunks(h) # {}) =>
                 r = ChunkValue(h, Len(h) \div 5) % 10000

\* the result of a digest whose first chunk is at least 10000 and whose
\* second chunk is below it, with further digits after the chunks
C15_Witness ==
    /\ Returned("extract_roll_from_hmac")
    /\ Len(unit.arg) > 10
    /\ ChunkValue(unit.arg, 1) >= 10000
    /\ ChunkValue(unit.arg, 2) = 9999
    /\ unit.ret = Some(9999)

\* the result of a digest shorter than one chunk
C15_ShortWitness ==
    /\ Returned("extract_roll_from_hmac")
    /\ unit.arg = <<"0", "2", "7", "0">>
    /\ unit.ret[1] \in 0..9999

(***************************************************************************)
(* read_wordlist_from_file on its own: the upload is an archive of up to   *)
(* MaxEntries entries, each a directory, an entry that cannot be read, or  *)
(* a file whose text has blank lines, surrounding whitespace, a final line *)
(* break, or nothing but whitespace.                                       *)
(***************************************************************************)
ZipEntries ==
    { [name |-> <<"d", "/">>, readable |-> TRUE, text |-> <<"z">>],
      [name |-> <<"x">>, readable |-> FALSE, text |-> <<"y">>],
      [name |-> <<"f">>, readable |-> TRUE,
       text |-> <<" ", "a", "\n", "\n", "b", "\t">>],
      [name |-> <<"g">>, readable |-> TRUE, text |-> <<"c", "\n">>],
      [name |-> <<"h">>, readable |-> TRUE, text |-> <<" ", "\t">>] }

RECURSIVE Archives(_)
Archives(n) ==
    IF n = 0 THEN { <<>> }
    ELSE { <<>> } \cup { <<e>> \o a : e \in ZipEntries, a \in Archives(n - 1) }

ZipInit ==
    /\ ServerInit
    /\ unit \in { [op |-> "read_wordlist_from_file",
                   arg |-> [filename |-> "w.zip", entries |-> a],
                   ret |-> None] : a \in Archives(MaxEntries) }

ZipApply ==
    /\ unit.op = "read_wordlist_from_file"
    /\ unit.ret = None
    /\ unit' = [unit EXCEPT !.ret = Some(read_wordlist_from_file(unit.arg))]
    /\ UNCHANGED <<jobs, workers, calls, snap, clock, startResp, ackProcessed>>

ZipSpec == ZipInit /\ [][ZipApply]_vars

(***************************************************************************)
(* C16.  For an archive, read_wordlist_from_file returns exactly the       *)
(* trimmed non-empty lines of every readable file entry, entry after entry *)
(* in the order of the archive's listing and line after line within an     *)
(* entry; a directory entry or an unreadable entry contributes no line and *)
(* the read still returns; no returned string is empty or begins or ends   *)
(* with whitespace.                                                        *)
(***************************************************************************)
IsDirectory(e) == e.name # <<>> /\ e.name[Len(e.name)] = "/"

\* what one entry contributes
EntryLines(e) ==
    IF IsDirectory(e) \/ ~e.readable THEN <<>>
    ELSE StripNonEmpty(SplitLines(e.text))

\* ws is made of the contributions of the entries es, one after another
RECURSIVE MadeOf(_, _)
MadeOf(ws, es) ==
    IF es = <<>> THEN ws = <<>>
    ELSE LET n == Len(EntryLines(es[Len(es)]))
         IN  /\ n <= Len(ws)
             /\ SubSeq(ws, Len(ws) - n + 1, Len(ws)) = EntryLines(es[Len(es)])
             /\ MadeOf(SubSeq(ws, 1, Len(ws) - n), SubSeq(es, 1, Len(es) - 1))

=============================================================================
